---------------------------- MODULE Spec2Model ----------------------------
(***************************************************************************)
(* Model of src/src/components/DynamicRoadRouting.jsx: the population grid *)
(* (DynamicPopulationGrid), the route generator and scorer                 *)
(* (DynamicOSRMRouter) and the event handlers of the DynamicRoadRouting    *)
(* component.                                                              *)
(*                                                                         *)
(* Numbers.  A coordinate is an integer number of ten-thousandths of a     *)
(* degree (23.1821 is 231821), so gridSize 0.0005 is 5 and a radius of     *)
(* 0.001 is 10.  An integer stands for the double the program holds: the   *)
(* double of the decimal for a coordinate that comes from outside, and the *)
(* double Math.floor(v / 0.0005) * 0.0005 for a grid coordinate.           *)
(* Distances are compared squared and exactly; scores are exact rationals. *)
(***************************************************************************)
EXTENDS Integers, Sequences, FiniteSets, TLC

VARIABLES
    populations,        \* DynamicPopulationGrid.populations (a Map, in insertion order)
    crowdZones,         \* DynamicPopulationGrid.crowdZones
    populatedAreas,     \* component state populatedAreas
    added,              \* history: per coordinate, the counts added since the last clearAll
    lastCall,           \* history: the last grid call and what it returned
    ncalls,             \* history: number of addPerson calls made
    start,              \* component state start: Null or a point
    end,                \* component state end
    handleSelectEnd,    \* the end that the memoized handleSelect closed over
    currentRoute,       \* component state currentRoute
    routeInfo,          \* component state routeInfo: <<>> for null, else <<info>>
    routeOptions,       \* component state routeOptions
    selectedRouteIndex, \* component state selectedRouteIndex (counted from 0)
    isCalculating,      \* component state isCalculating
    staticLoaded,       \* the timer of the static crowd data has fired
    pc,                 \* where the running calculateRoute is waiting
    cStart,             \* start as calculateRoute closed over it
    cEnd,               \* end as calculateRoute closed over it
    cZones,             \* the crowdZones array passed to getMultipleRoutes
    cRoutes,            \* the routes array of getMultipleRoutes
    requests,           \* history: the fetches of the last getMultipleRoutes
    clickZones,         \* history: crowdZones when Calculate Routes was clicked
    branch,             \* history: what each request of the running call came to
    returned,           \* history: <<routes>> returned by the last getMultipleRoutes
    routeFor,           \* history: <<start, end>> that routeOptions was computed for
    nclicks,            \* history: number of map clicks
    lastClick,          \* history: the latlng of the last map click
    ncalcs,             \* history: number of calculations started
    nselects,           \* history: number of route options clicked
    inRoute,            \* argument of analyzeCrowdIntersections
    inZones,            \* argument of analyzeCrowdIntersections
    outReport           \* result of analyzeCrowdIntersections: <<>> before the call

gridVars == <<populations, crowdZones, populatedAreas, added, lastCall, ncalls>>
fnVars == <<inRoute, inZones, outReport>>
uiVars == <<start, end, handleSelectEnd, currentRoute, routeInfo, routeOptions,
            selectedRouteIndex, nclicks, lastClick, nselects>>
calcVars == <<isCalculating, pc, cStart, cEnd, cZones, cRoutes, requests, clickZones,
              branch, returned, routeFor, ncalcs>>
vars == <<populations, crowdZones, populatedAreas, added, lastCall, ncalls,
          start, end, handleSelectEnd, currentRoute, routeInfo, routeOptions,
          selectedRouteIndex, isCalculating, staticLoaded, pc, cStart, cEnd,
          cZones, cRoutes, requests, clickZones, branch, returned, routeFor, nclicks,
          lastClick,
          ncalcs, nselects,
          inRoute, inZones, outReport>>

---------------------------------------------------------------------------
(* Bounds of the model *)

MaxCalls == 3

\* events of the user (clicks, right clicks, buttons other than Clear All) in
\* a run of the component
MaxEvents == 4

\* analyzeCrowdIntersections is applied to routes of up to MaxRouteLen points
\* (and to ScenarioRoute) and to lists of up to MaxZones zones
MaxRouteLen == 2

MaxZones == 2

\* events of the user in a run of the component with fairness: clicks, right
\* clicks and buttons, and clicks on a route option
MaxLiveEvents == 3

MaxLiveSelects == 1

---------------------------------------------------------------------------
(* Numbers *)

\* null, for start and end
Null == <<>>

\* The JavaScript value NaN as a coordinate.
NaN == 99999999

IsNaN(v) == v = NaN

\* this.gridSize = 0.0005, in ten-thousandths of a degree
GridUnits == 5

\* Coordinates v of the model for which the double division v / 0.0005 falls
\* just below the integer it would be exactly, so that Math.floor gives one
\* less: 1.0005 / 0.0005 is 2000.9999999999998 in IEEE-754 doubles.
DivRoundsDown == {10005}

\* Math.floor(v / this.gridSize)
GridFloor(v) ==
    IF IsNaN(v) THEN NaN
    ELSE IF v \in DivRoundsDown THEN (v \div GridUnits) - 1
    ELSE v \div GridUnits

\* Math.floor(v / this.gridSize) * this.gridSize
GridCoord(v) == IF IsNaN(v) THEN NaN ELSE GridFloor(v) * GridUnits

Max(a, b) == IF a >= b THEN a ELSE b

\* |v|
Abs(v) == IF v < 0 THEN -v ELSE v

RECURSIVE Gcd(_, _)
Gcd(a, b) == IF b = 0 THEN a ELSE Gcd(b, a % b)

\* A score is a rational [n, d] in lowest terms with d > 0, or a value that
\* is not finite: [n |-> 0, d |-> 0] is NaN, [n |-> 1, d |-> 0] Infinity.
RatNaN == [n |-> 0, d |-> 0]

RatInf == [n |-> 1, d |-> 0]

RatIsFinite(a) == a.d > 0

RatMk(n, d) ==
    LET g == Gcd(Abs(n), Abs(d))
    IN IF d < 0 THEN [n |-> (-n) \div g, d |-> (-d) \div g]
       ELSE [n |-> n \div g, d |-> d \div g]

RatOf(i) == [n |-> i, d |-> 1]

\* a + b
RatAdd(a, b) ==
    IF RatIsFinite(a) /\ RatIsFinite(b) THEN RatMk(a.n * b.d + b.n * a.d, a.d * b.d)
    ELSE IF a = RatNaN \/ b = RatNaN THEN RatNaN
    ELSE RatInf

\* a * b, for a and b >= 0
RatMul(a, b) ==
    IF RatIsFinite(a) /\ RatIsFinite(b) THEN RatMk(a.n * b.n, a.d * b.d)
    ELSE IF a = RatNaN \/ b = RatNaN \/ a.n = 0 \/ b.n = 0 THEN RatNaN
    ELSE RatInf

\* a / b, for a and b >= 0: 0 / 0 is NaN, x / 0 is Infinity
RatDiv(a, b) ==
    IF ~(RatIsFinite(a) /\ RatIsFinite(b))
    THEN (IF RatIsFinite(b) /\ a = RatInf /\ b.n # 0 THEN RatInf
          ELSE IF RatIsFinite(a) /\ b = RatInf THEN RatOf(0)
          ELSE RatNaN)
    ELSE IF b.n = 0 THEN (IF a.n = 0 THEN RatNaN ELSE RatInf)
    ELSE RatMk(a.n * b.d, a.d * b.n)

\* a < b: false when either is NaN
RatLess(a, b) ==
    IF RatIsFinite(a) /\ RatIsFinite(b) THEN a.n * b.d < b.n * a.d
    ELSE a # RatNaN /\ b = RatInf /\ a # RatInf

\* x without the `|| 0` that follows it
Or0_Kept(a) == a

\* x || 0: NaN and 0 are falsy
Or0(a) == IF a = RatNaN \/ a = RatOf(0) THEN RatOf(0) ELSE a

RECURSIVE SumSeq(_)
SumSeq(s) == IF s = <<>> THEN 0 ELSE Head(s) + SumSeq(Tail(s))

RECURSIVE SumOver(_, _)
\* the sum of f[x] over the finite set S
SumOver(f, S) ==
    IF S = {} THEN 0
    ELSE LET x == CHOOSE y \in S : TRUE IN f[x] + SumOver(f, S \ {x})

---------------------------------------------------------------------------
(* DynamicPopulationGrid *)

\* getGridKey(lat, lng): the key string `${gridLat},${gridLng}` as the pair
getGridKey(lat, lng) == <<GridCoord(lat), GridCoord(lng)>>

\* Map.prototype.has
MapHas(m, key) == \E i \in 1..Len(m) : m[i].key = key

\* this.populations.get(key) || 0
MapGetOr0(m, key) ==
    IF MapHas(m, key)
    THEN LET i == CHOOSE j \in 1..Len(m) : m[j].key = key IN m[i].pop
    ELSE 0

\* MapSet with the entries kept as a list that is only ever pushed to
MapSet_AlwaysAppend(m, key, value) == Append(m, [key |-> key, pop |-> value])

\* this.populations.set(key, value): an existing key keeps its place
MapSet(m, key, value) ==
    IF MapHas(m, key)
    THEN [i \in 1..Len(m) |-> IF m[i].key = key THEN [key |-> key, pop |-> value] ELSE m[i]]
    ELSE Append(m, [key |-> key, pop |-> value])

\* getPopulation(lat, lng) on the map m
getPopulation(m, lat, lng) == MapGetOr0(m, getGridKey(lat, lng))

\* the step function with its second breakpoint off by one
WeightOfPopulation_OffByOne(population) ==
    IF population = 0 THEN 1
    ELSE IF population <= 3 THEN 2
    ELSE IF population < 6 THEN 5
    ELSE IF population < 10 THEN 10
    ELSE 20

\* the step function of getRoutingWeight
WeightOfPopulation(population) ==
    IF population = 0 THEN 1
    ELSE IF population < 3 THEN 2
    ELSE IF population < 6 THEN 5
    ELSE IF population < 10 THEN 10
    ELSE 20

\* getRoutingWeight(lat, lng) on the map m
getRoutingWeight(m, lat, lng) == WeightOfPopulation(getPopulation(m, lat, lng))

\* the test of getPopulatedAreas with >= for >
IsPopulated_AllowZero(entry) == entry.pop >= 0

\* the test of getPopulatedAreas: population > 0
IsPopulated(entry) == entry.pop > 0

\* getPopulatedAreas() on the map m: key.split(',').map(Number) gives back the
\* two grid coordinates
getPopulatedAreas(m) ==
    LET kept == SelectSeq(m, IsPopulated)
    IN [i \in 1..Len(kept) |->
          [lat |-> kept[i].key[1], lng |-> kept[i].key[2], population |-> kept[i].pop]]

\* the test of updateCrowdZones: area.population >= 3
IsSignificant(area) == area.population >= 3

\* Math.max(0.001, area.population * 0.0003)
ZoneRadius(population) == Max(10, population * 3)

\* updateCrowdZones() on the map m: the new value of this.crowdZones
updateCrowdZones(m) ==
    LET crowded == SelectSeq(getPopulatedAreas(m), IsSignificant)
    IN [i \in 1..Len(crowded) |->
          [center |-> <<crowded[i].lat, crowded[i].lng>>,
           radius |-> ZoneRadius(crowded[i].population),
           population |-> crowded[i].population,
           weight |-> getRoutingWeight(m, crowded[i].lat, crowded[i].lng)]]

---------------------------------------------------------------------------
(* DynamicOSRMRouter.analyzeCrowdIntersections *)

\* distance <= zone.radius, for the distance of point from zone.center; a
\* comparison with NaN is false.  A point further than the radius along one
\* axis is outside, which keeps the squares small.
InZone(point, zone) ==
    /\ ~IsNaN(zone.center[1])
    /\ ~IsNaN(zone.center[2])
    /\ Abs(point[1] - zone.center[1]) <= zone.radius
    /\ Abs(point[2] - zone.center[2]) <= zone.radius
    /\ (point[1] - zone.center[1]) * (point[1] - zone.center[1])
         + (point[2] - zone.center[2]) * (point[2] - zone.center[2])
           <= zone.radius * zone.radius

RECURSIVE CountIntersectionPoints(_, _)
\* the inner loop: intersectionPoints of one zone
CountIntersectionPoints(route, zone) ==
    IF route = <<>> THEN 0
    ELSE (IF InZone(Head(route), zone) THEN 1 ELSE 0)
            + CountIntersectionPoints(Tail(route), zone)

\* intersectionPoints / route.length
IntersectionRatio(intersectionPoints, length) ==
    RatDiv(RatOf(intersectionPoints), RatOf(length))

\* the addition to totalIntersection with the weight left out
ZoneScore_NoWeight(intersectionRatio, weight) == intersectionRatio

\* intersectionRatio * zone.weight
ZoneScore(intersectionRatio, weight) == RatMul(intersectionRatio, RatOf(weight))

RECURSIVE AnalyzeLoop(_, _, _, _)
\* the loop over crowdZones, from the zones left, totalIntersection and worstZone
AnalyzeLoop(route, zones, totalIntersection, worstZone) ==
    IF zones = <<>>
    THEN [totalIntersection |-> totalIntersection, worstZone |-> worstZone]
    ELSE LET zone == Head(zones)
             intersectionPoints == CountIntersectionPoints(route, zone)
             intersectionRatio == IntersectionRatio(intersectionPoints, Len(route))
             total == RatAdd(totalIntersection, ZoneScore(intersectionRatio, zone.weight))
             worst == IF worstZone = <<>>
                         \/ RatLess(worstZone[1].intersectionRatio, intersectionRatio)
                      THEN << [zone |-> zone,
                               intersectionRatio |-> intersectionRatio,
                               intersectionPoints |-> intersectionPoints] >>
                      ELSE worstZone
         IN AnalyzeLoop(route, Tail(zones), total, worst)

\* analyzeCrowdIntersections(route, crowdZones); worstZone is <<>> for null
analyzeCrowdIntersections(route, zones) ==
    LET r == AnalyzeLoop(route, zones, RatOf(0), <<>>)
    IN [totalIntersection |-> r.totalIntersection,
        worstZone |-> r.worstZone,
        averageIntersection |->
            Or0(RatDiv(r.totalIntersection, RatOf(Len(zones))))]

---------------------------------------------------------------------------
(* DynamicOSRMRouter: the three requests *)

\* What came of `await fetch(url)` and `await response.json()`: a rejection, or
\* the parsed body {code, routes}; a route is its geometry.coordinates, a list
\* of [lng, lat].
NetworkError == [kind |-> "error", code |-> "", routes |-> <<>>]

JsonBody(code, routes) == [kind |-> "json", code |-> code, routes |-> routes]

\* coord => [coord[1], coord[0]]
SwapPoint(coord) == <<coord[2], coord[1]>>

\* coordinates.map(coord => [coord[1], coord[0]])
SwapRoute(coordinates) == [i \in 1..Len(coordinates) |-> SwapPoint(coordinates[i])]

\* How a block of code ends: with a value (<<>> is null, <<route>> a route)
\* or by throwing.
Returns(v) == [throws |-> FALSE, value |-> v]

Throws == [throws |-> TRUE, value |-> <<>>]

\* the try block of getRoadRoute and of getAvoidanceRoute, from the response
RoadRouteTry(resp) ==
    IF resp.kind = "error" THEN Throws
    ELSE IF resp.code # "Ok" THEN Throws
    ELSE IF Len(resp.routes) < 1 THEN Throws
    ELSE Returns(<<SwapRoute(resp.routes[1])>>)

\* the try block of getAlternativeRoute, from the response
AlternativeRouteTry(resp) ==
    IF resp.kind = "error" THEN Throws
    ELSE IF resp.code # "Ok" \/ Len(resp.routes) < 2 THEN Returns(<<>>)
    ELSE Returns(<<SwapRoute(resp.routes[2])>>)

\* a try block whose error is not caught
CatchReturnNull_Rethrow(outcome) == outcome

\* catch (error) { console.error(...); return null; }
CatchReturnNull(outcome) == IF outcome.throws THEN Returns(<<>>) ELSE outcome

getRoadRoute(resp) == CatchReturnNull(RoadRouteTry(resp))

getAvoidanceRoute(resp) == CatchReturnNull(RoadRouteTry(resp))

getAlternativeRoute(resp) == CatchReturnNull(AlternativeRouteTry(resp))

\* A number of a request: base + num / sqrt(lengthSq), in ten-thousandths of
\* a degree.  A coordinate of start or end is Exact.
Exact(v) == [base |-> v, num |-> 0, lengthSq |-> 1]

ExactPoint(point) == <<Exact(point[1]), Exact(point[2])>>

\* const avoidanceDistances = [0.002, 0.004, 0.006]
AvoidanceDistances == <<20, 40, 60>>

\* createAvoidanceWaypoints(start, end, crowdZone); length === 0 exactly when
\* dx * dx + dy * dy is 0
createAvoidanceWaypoints(startPoint, endPoint, crowdZone) ==
    LET dx == endPoint[1] - startPoint[1]
        dy == endPoint[2] - startPoint[2]
        lengthSq == dx * dx + dy * dy
    IN IF lengthSq = 0 THEN <<>>
       ELSE [i \in 1..Len(AvoidanceDistances) |->
                <<[base |-> crowdZone.center[1],
                   num |-> (-dy) * AvoidanceDistances[i],
                   lengthSq |-> lengthSq],
                  [base |-> crowdZone.center[2],
                   num |-> dx * AvoidanceDistances[i],
                   lengthSq |-> lengthSq]>>]

RECURSIVE ReduceWorst(_, _, _)
\* crowdZones.reduce((worst, current) => current.weight > worst.weight ? current : worst)
ReduceWorst(zones, worst, i) ==
    IF i > Len(zones) THEN worst
    ELSE ReduceWorst(zones, IF zones[i].weight > zones[worst].weight THEN i ELSE worst, i + 1)

\* a fetch of the router: which method sent it and the coordinates of its
\* url, each [lng, lat]
RoadRequest(startPoint, endPoint) ==
    [type |-> "direct",
     coordinates |-> <<SwapPoint(ExactPoint(startPoint)), SwapPoint(ExactPoint(endPoint))>>]

\* the coordinates getAvoidanceRoute builds: start, the waypoints, end
AvoidanceRequest(startPoint, endPoint, zones) ==
    LET worstZone == zones[ReduceWorst(zones, 1, 2)]
        avoidancePoints == createAvoidanceWaypoints(startPoint, endPoint, worstZone)
    IN [type |-> "avoidance",
        coordinates |-> <<SwapPoint(ExactPoint(startPoint))>>
                        \o SwapRoute(avoidancePoints)
                        \o <<SwapPoint(ExactPoint(endPoint))>>]

AlternativeRequest(startPoint, endPoint) ==
    [type |-> "alternative",
     coordinates |-> <<SwapPoint(ExactPoint(startPoint)), SwapPoint(ExactPoint(endPoint))>>]

\* a push that scores the route against the grid's zones of the moment
PushCandidate_LiveZones(routes, found, type, zones) ==
    IF found = <<>> THEN routes
    ELSE Append(routes,
                [route |-> found[1],
                 type |-> type,
                 crowdIntersections |-> analyzeCrowdIntersections(found[1], crowdZones)])

\* routes.push({route, type, crowdIntersections}) when the route is not null
PushCandidate(routes, found, type, zones) ==
    IF found = <<>> THEN routes
    ELSE Append(routes,
                [route |-> found[1],
                 type |-> type,
                 crowdIntersections |-> analyzeCrowdIntersections(found[1], zones)])

---------------------------------------------------------------------------
(* calculateRoute: selection and statistics *)

\* the reducer with <= for <
PickCurrent_OrEqual(current, best) ==
    ~RatLess(best.crowdIntersections.totalIntersection,
             current.crowdIntersections.totalIntersection)

\* current.crowdIntersections.totalIntersection
\*     < best.crowdIntersections.totalIntersection
PickCurrent(current, best) ==
    RatLess(current.crowdIntersections.totalIntersection,
            best.crowdIntersections.totalIntersection)

RECURSIVE ReduceBest(_, _, _)
\* routes.reduce((best, current) => ... ? current : best), from element i on;
\* best and the result are positions in routes
ReduceBest(routes, best, i) ==
    IF i > Len(routes) THEN best
    ELSE ReduceBest(routes, IF PickCurrent(routes[i], routes[best]) THEN i ELSE best, i + 1)

RECURSIVE CrowdedPoints(_, _)
\* route.filter(point => getRoutingWeight(point[0], point[1]) > 2).length
CrowdedPoints(m, route) ==
    IF route = <<>> THEN 0
    ELSE (IF getRoutingWeight(m, Head(route)[1], Head(route)[2]) > 2 THEN 1 ELSE 0)
            + CrowdedPoints(m, Tail(route))

RECURSIVE WeightSum(_, _)
\* route.reduce((sum, point) => sum + getRoutingWeight(point[0], point[1]), 0)
WeightSum(m, route) ==
    IF route = <<>> THEN 0
    ELSE getRoutingWeight(m, Head(route)[1], Head(route)[2]) + WeightSum(m, Tail(route))

\* the object given to setRouteInfo, on the grid as it is now (totalDistance,
\* a sum of square roots that nothing else reads, is left out)
RouteStatistics(m, bestRoute) ==
    LET totalPoints == Len(bestRoute.route)
        crowdedPoints == CrowdedPoints(m, bestRoute.route)
    IN [totalPoints |-> totalPoints,
        crowdedPoints |-> crowdedPoints,
        averageWeight |->
            IF totalPoints > 0
            THEN RatDiv(RatOf(WeightSum(m, bestRoute.route)), RatOf(totalPoints))
            ELSE RatOf(0),
        efficiency |->
            IF totalPoints > 0
            THEN RatMk(Max(0, 100 * totalPoints - 100 * crowdedPoints), totalPoints)
            ELSE RatOf(0),
        routeType |-> bestRoute.type,
        crowdIntersection |-> bestRoute.crowdIntersections.totalIntersection]

---------------------------------------------------------------------------
(* Inputs *)

\* Ujjain, two coordinates of one cell (static and test crowd data)
PointA == <<231821, 757890>>
PointA2 == <<231823, 757892>>
\* another cell of the static crowd data
PointB == <<231815, 757870>>
\* a cell whose grid latitude 1.0005 quantizes to the cell below it
PointE == <<10006, 757890>>
\* latitude 91, longitude 181, and a NaN latitude
PointBadLat == <<910000, 757890>>
PointBadLng == <<231821, 1810000>>
PointNaN == <<NaN, 757890>>

ValidPoints == {PointA, PointA2, PointB, PointE}
InvalidPoints == {PointBadLat, PointBadLng, PointNaN}
GridPoints == ValidPoints \cup InvalidPoints

\* the coordinates that the grid is called with under SpecGrid
GridInputs == {PointA, PointA2, PointE} \cup InvalidPoints

\* the other coordinates of the static and test crowd data
PointC == <<231830, 757885>>
PointD == <<231829, 757905>>

AllPoints == GridPoints \cup {PointC, PointD}

Counts == {-1, 0, 1, 5}

\* all sequences over S of length 0..n
SeqsUpTo(S, n) == UNION {[1..k -> S] : k \in 0..n}

\* route points: near the origin of PointA's cell, 14 units away, and far away
RoutePointNear == <<231821, 757891>>
RoutePointMid == <<231830, 757900>>
RoutePointFar == <<231900, 758000>>

RoutePoints == {RoutePointNear, RoutePointMid, RoutePointFar}

\* a route of 10 points, 5 of them within 0.003 of the origin of PointA's cell
ScenarioRoute ==
    << RoutePointNear, RoutePointMid, <<231822, 757892>>, <<231825, 757895>>,
       <<231818, 757888>>, RoutePointFar, <<231910, 758010>>, <<231920, 758020>>,
       <<231930, 758030>>, <<231940, 758040>> >>

RouteInputs == SeqsUpTo(RoutePoints, MaxRouteLen) \cup {ScenarioRoute}

\* zones as updateCrowdZones builds them for populations 5, 10 and 6
ZoneA5 == [center |-> <<231820, 757890>>, radius |-> 15, population |-> 5, weight |-> 5]
ZoneA20 == [center |-> <<231820, 757890>>, radius |-> 30, population |-> 10, weight |-> 20]
ZoneB10 == [center |-> <<231815, 757870>>, radius |-> 18, population |-> 6, weight |-> 10]

ZoneInputs == SeqsUpTo({ZoneA5, ZoneA20, ZoneB10}, MaxZones)

\* staticCrowdData and testCrowdData
StaticCrowdData ==
    << [p |-> PointA, count |-> 20], [p |-> PointA2, count |-> 40],
       [p |-> PointC, count |-> 0], [p |-> PointB, count |-> 5],
       [p |-> PointD, count |-> 8] >>

TestCrowdData ==
    << [p |-> PointA, count |-> 3], [p |-> PointA2, count |-> 7],
       [p |-> PointC, count |-> 10], [p |-> PointB, count |-> 5],
       [p |-> PointD, count |-> 8] >>

\* where the user clicks for start and end, and right-clicks
ClickPointS == <<231800, 757800>>
ClickPointT == <<231900, 758000>>

ClickInputs == {ClickPointS, ClickPointT, PointBadLat}

RightClickInputs == {PointA, PointBadLng}

\* the provider's routes, as [lng, lat]: one through PointA's cell, one around
ProviderThrough == << <<757891, 231821>>, <<757900, 231830>> >>
ProviderAround == << <<758300, 232200>>, <<758310, 232210>> >>

\* the provider's answers to one request
Responses ==
    { NetworkError,
      JsonBody("NoRoute", <<>>),
      JsonBody("Ok", <<>>),
      JsonBody("Ok", <<ProviderThrough>>),
      JsonBody("Ok", <<ProviderAround>>),
      JsonBody("Ok", <<ProviderThrough, ProviderAround>>),
      JsonBody("Ok", <<ProviderAround, ProviderThrough>>) }

\* history: no request made yet
NoBranches ==
    [direct |-> [status |-> "none", route |-> <<>>],
     avoidance |-> [status |-> "none", route |-> <<>>],
     alternative |-> [status |-> "none", route |-> <<>>]]

\* history: a request answered with resp, whose route number idx was wanted
BranchResult(resp, idx) ==
    IF resp.kind = "json" /\ resp.code = "Ok" /\ Len(resp.routes) >= idx
    THEN [status |-> "ok",
          route |-> [i \in 1..Len(resp.routes[idx]) |->
                        <<resp.routes[idx][i][2], resp.routes[idx][i][1]>>]]
    ELSE [status |-> "failed", route |-> <<>>]

\* the test of handleAddPerson without its upper latitude limit
InvalidCoordinates_NoLatMax(lat, lng) ==
    \/ IsNaN(lat) \/ IsNaN(lng)
    \/ lat < -900000
    \/ lng < -1800000 \/ lng > 1800000

\* the test of handleAddPerson and handleSelect
InvalidCoordinates(lat, lng) ==
    \/ IsNaN(lat) \/ IsNaN(lng)
    \/ lat < -900000 \/ lat > 900000
    \/ lng < -1800000 \/ lng > 1800000

---------------------------------------------------------------------------
(* Operations on the grid *)

\* populationGrid.addPerson(lat, lng, count)
AddPerson(p, count) ==
    /\ LET key == getGridKey(p[1], p[2])
           current == MapGetOr0(populations, key)
           m == MapSet(populations, key, current + count)
       IN /\ populations' = m
          /\ crowdZones' = updateCrowdZones(m)
          /\ lastCall' = [op |-> "addPerson", p |-> p, count |-> count,
                          ret |-> current + count, rejected |-> FALSE]
    /\ added' = [added EXCEPT ![p] = @ + count]
    /\ ncalls' = ncalls + 1
    /\ UNCHANGED <<populatedAreas, staticLoaded, uiVars, calcVars, fnVars>>

\* handleAddPerson(lat, lng): a right click on the map
HandleAddPerson(p) ==
    /\ IF InvalidCoordinates(p[1], p[2])
       THEN /\ lastCall' = [op |-> "handleAddPerson", p |-> p, count |-> 1,
                            ret |-> 0, rejected |-> TRUE]
            /\ UNCHANGED <<populations, crowdZones, populatedAreas, added>>
       ELSE LET key == getGridKey(p[1], p[2])
                current == MapGetOr0(populations, key)
                m == MapSet(populations, key, current + 1)
            IN /\ populations' = m
               /\ crowdZones' = updateCrowdZones(m)
               /\ populatedAreas' = getPopulatedAreas(m)
               /\ added' = [added EXCEPT ![p] = @ + 1]
               /\ lastCall' = [op |-> "handleAddPerson", p |-> p, count |-> 1,
                               ret |-> current + 1, rejected |-> FALSE]
    /\ ncalls' = ncalls + 1
    /\ UNCHANGED <<staticLoaded, uiVars, calcVars, fnVars>>

\* a clearAll that leaves the zones as they are
clearAll_ZonesKept(m, zones) == [populations |-> <<>>, crowdZones |-> zones]

\* clearAll(): this.populations.clear(); this.crowdZones = []
clearAll(m, zones) == [populations |-> <<>>, crowdZones |-> <<>>]

\* the Clear All button: populationGrid.clearAll() and the state resets.
\* The history keeps, as count, the number of cells the grid had.
ClearAllClick ==
    /\ populations' = clearAll(populations, crowdZones).populations
    /\ crowdZones' = clearAll(populations, crowdZones).crowdZones
    /\ populatedAreas' = <<>>
    /\ added' = [p \in AllPoints |-> 0]
    /\ lastCall' = [op |-> "clearAll", p |-> PointA, count |-> Len(populations),
                     ret |-> 0, rejected |-> FALSE]
    /\ currentRoute' = <<>>
    /\ routeInfo' = <<>>
    /\ routeOptions' = <<>>
    /\ UNCHANGED <<ncalls, staticLoaded, start, end, handleSelectEnd, selectedRouteIndex,
                   nclicks, lastClick, nselects, calcVars, fnVars>>

RECURSIVE AddAll(_, _)
\* data.forEach(({lat, lng, count}) => populationGrid.addPerson(lat, lng, count)):
\* the populations after it
AddAll(m, data) ==
    IF data = <<>> THEN m
    ELSE LET key == getGridKey(Head(data).p[1], Head(data).p[2])
             current == MapGetOr0(m, key)
         IN AddAll(MapSet(m, key, current + Head(data).count), Tail(data))

RECURSIVE AddedAfter(_, _)
\* history: added after the calls of AddAll
AddedAfter(a, data) ==
    IF data = <<>> THEN a
    ELSE AddedAfter([a EXCEPT ![Head(data).p] = @ + Head(data).count], Tail(data))

\* the test of the static loader: count > 0
HasCount(entry) == entry.count > 0

\* the timer of useEffect: the static crowd data with count > 0 is added
StaticLoad ==
    /\ ~staticLoaded
    /\ staticLoaded' = TRUE
    /\ LET data == SelectSeq(StaticCrowdData, HasCount)
           m == AddAll(populations, data)
       IN /\ populations' = m
          /\ crowdZones' = updateCrowdZones(m)
          /\ populatedAreas' = getPopulatedAreas(m)
          /\ added' = AddedAfter(added, data)
    /\ lastCall' = [op |-> "staticLoad", p |-> PointA, count |-> 0,
                    ret |-> 0, rejected |-> FALSE]
    /\ UNCHANGED <<ncalls, uiVars, calcVars, fnVars>>

\* the Add Test Crowds button
AddTestCrowds ==
    /\ ncalls' = ncalls + 1
    /\ LET m == AddAll(populations, TestCrowdData)
       IN /\ populations' = m
          /\ crowdZones' = updateCrowdZones(m)
          /\ populatedAreas' = getPopulatedAreas(m)
          /\ added' = AddedAfter(added, TestCrowdData)
    /\ lastCall' = [op |-> "addTestCrowds", p |-> PointA, count |-> 0,
                    ret |-> 0, rejected |-> FALSE]
    /\ UNCHANGED <<staticLoaded, uiVars, calcVars, fnVars>>

---------------------------------------------------------------------------
(* Operations of the component *)

\* handleSelect(latlng): a left click on the map.  The callback is memoized on
\* [start] alone, so the end it tests is the one of the render in which start
\* last changed.
HandleSelect(p) ==
    /\ nclicks' = nclicks + 1
    /\ lastClick' = p
    /\ IF InvalidCoordinates(p[1], p[2])
       THEN UNCHANGED <<start, end, handleSelectEnd, currentRoute, routeInfo, routeOptions>>
       ELSE IF start = Null
       THEN /\ start' = p
            /\ end' = Null
            /\ currentRoute' = <<>>
            /\ routeInfo' = <<>>
            /\ routeOptions' = <<>>
            /\ handleSelectEnd' = end'
       ELSE IF handleSelectEnd = Null
       THEN /\ end' = p
            /\ UNCHANGED <<start, handleSelectEnd, currentRoute, routeInfo, routeOptions>>
       ELSE /\ start' = p
            /\ end' = Null
            /\ currentRoute' = <<>>
            /\ routeInfo' = <<>>
            /\ routeOptions' = <<>>
            /\ handleSelectEnd' = end'
    /\ UNCHANGED <<gridVars, staticLoaded, selectedRouteIndex, nselects, calcVars, fnVars>>

\* disabled={isCalculating} of the Calculate Routes button
CalculateDisabled == isCalculating

\* a click on the Calculate Routes button, which is there when start and end
\* are set and enabled when isCalculating is false: calculateRoute runs up to
\* its first await
CalculateClick ==
    /\ start # Null
    /\ end # Null
    /\ ~CalculateDisabled
    /\ ncalcs' = ncalcs + 1
    /\ isCalculating' = TRUE
    /\ pc' = "delay"
    /\ cStart' = start
    /\ cEnd' = end
    /\ cZones' = <<>>
    /\ cRoutes' = <<>>
    /\ requests' = <<>>
    /\ clickZones' = crowdZones
    /\ branch' = NoBranches
    /\ returned' = <<>>
    /\ UNCHANGED <<gridVars, staticLoaded, uiVars, fnVars, routeFor>>

\* the one-second timer resolves: getMultipleRoutes is called with the
\* crowdZones array of this moment and requests the direct route
DelayDone ==
    /\ pc = "delay"
    /\ pc' = "direct"
    /\ cZones' = crowdZones
    /\ requests' = <<RoadRequest(cStart, cEnd)>>
    /\ UNCHANGED <<gridVars, staticLoaded, uiVars, fnVars,
                   isCalculating, cStart, cEnd, cRoutes, clickZones, branch, returned,
                   routeFor, ncalcs>>

\* a calculateRoute without its finally block
FinallyIsCalculating_Kept == isCalculating

\* finally { setIsCalculating(false); }
FinallyIsCalculating == FALSE

\* the rest of calculateRoute once getMultipleRoutes has returned routes
FinishCalculation(routes) ==
    /\ IF Len(routes) > 0
       THEN LET best == ReduceBest(routes, 1, 2)
            IN /\ routeOptions' = routes
               /\ currentRoute' = routes[best].route
               /\ selectedRouteIndex' = best - 1
               /\ routeInfo' = <<RouteStatistics(populations, routes[best])>>
               /\ routeFor' = <<cStart, cEnd>>
       ELSE /\ currentRoute' = <<>>
            /\ routeInfo' = <<>>
            /\ UNCHANGED <<routeOptions, selectedRouteIndex, routeFor>>
    /\ isCalculating' = FinallyIsCalculating
    /\ pc' = "idle"
    /\ returned' = <<routes>>
    /\ cRoutes' = routes
    /\ UNCHANGED <<gridVars, staticLoaded, start, end, handleSelectEnd, nclicks, lastClick,
                   nselects, cStart, cEnd, cZones, requests, clickZones, ncalcs, fnVars>>

\* getMultipleRoutes goes on to the next request
NextRequest(routes, next) ==
    /\ cRoutes' = routes
    /\ pc' = next
    /\ requests' = Append(requests,
                          IF next = "avoidance" THEN AvoidanceRequest(cStart, cEnd, cZones)
                          ELSE AlternativeRequest(cStart, cEnd))
    /\ UNCHANGED <<gridVars, staticLoaded, uiVars, fnVars,
                   isCalculating, cStart, cEnd, cZones, clickZones, returned,
                   routeFor, ncalcs>>

\* the direct request is answered; an error that getRoadRoute lets through
\* is caught by getMultipleRoutes, which returns []
DirectResponse(resp) ==
    /\ pc = "direct"
    /\ branch' = [branch EXCEPT !.direct = BranchResult(resp, 1)]
    /\ LET directRoute == getRoadRoute(resp)
       IN IF directRoute.throws
          THEN FinishCalculation(<<>>)
          ELSE NextRequest(PushCandidate(cRoutes, directRoute.value, "direct", cZones),
                           IF Len(cZones) > 0 THEN "avoidance" ELSE "alternative")

\* the avoidance request is answered
AvoidanceResponse(resp) ==
    /\ pc = "avoidance"
    /\ branch' = [branch EXCEPT !.avoidance = BranchResult(resp, 1)]
    /\ LET avoidanceRoute == getAvoidanceRoute(resp)
       IN IF avoidanceRoute.throws
          THEN FinishCalculation(<<>>)
          ELSE NextRequest(PushCandidate(cRoutes, avoidanceRoute.value, "avoidance", cZones),
                           "alternative")

\* the alternative request is answered: getMultipleRoutes returns and
\* calculateRoute runs to its end
AlternativeResponse(resp) ==
    /\ pc = "alternative"
    /\ branch' = [branch EXCEPT !.alternative = BranchResult(resp, 2)]
    /\ LET alternativeRoute == getAlternativeRoute(resp)
       IN IF alternativeRoute.throws
          THEN FinishCalculation(<<>>)
          ELSE FinishCalculation(
                   PushCandidate(cRoutes, alternativeRoute.value, "alternative", cZones))

\* a click on option number index (from 0) of the Route Options panel
SelectOption(index) ==
    /\ nselects' = nselects + 1
    /\ index + 1 \in 1..Len(routeOptions)
    /\ selectedRouteIndex' = index
    /\ currentRoute' = routeOptions[index + 1].route
    /\ UNCHANGED <<gridVars, staticLoaded, start, end, handleSelectEnd, routeInfo,
                   routeOptions, nclicks, lastClick, calcVars, fnVars>>

---------------------------------------------------------------------------
(* Specifications *)

InitGrid ==
    /\ populations = <<>>
    /\ crowdZones = <<>>
    /\ populatedAreas = <<>>
    /\ added = [p \in AllPoints |-> 0]
    /\ lastCall = [op |-> "none", p |-> PointA, count |-> 0, ret |-> 0, rejected |-> FALSE]
    /\ ncalls = 0

\* the useState initial values; no calculateRoute is running
InitApp ==
    /\ start = Null
    /\ end = Null
    /\ handleSelectEnd = Null
    /\ currentRoute = <<>>
    /\ routeInfo = <<>>
    /\ routeOptions = <<>>
    /\ selectedRouteIndex = 0
    /\ isCalculating = FALSE
    /\ staticLoaded = FALSE
    /\ pc = "idle"
    /\ cStart = Null
    /\ cEnd = Null
    /\ cZones = <<>>
    /\ cRoutes = <<>>
    /\ requests = <<>>
    /\ clickZones = <<>>
    /\ branch = NoBranches
    /\ returned = <<>>
    /\ routeFor = Null
    /\ nclicks = 0
    /\ lastClick = Null
    /\ ncalcs = 0
    /\ nselects = 0

InitFn ==
    /\ inRoute = <<>>
    /\ inZones = <<>>
    /\ outReport = <<>>

\* the grid as a class: any sequence of addPerson, right clicks and Clear All
GridInit == InitGrid /\ InitApp /\ InitFn

GridNext ==
    \/ \E p \in GridInputs, count \in Counts : ncalls < MaxCalls /\ AddPerson(p, count)
    \/ \E p \in GridInputs : ncalls < MaxCalls /\ HandleAddPerson(p)
    \/ ClearAllClick

SpecGrid == GridInit /\ [][GridNext]_vars

\* analyzeCrowdIntersections as a function: one call on the arguments drawn
AnalyzeInit ==
    /\ InitGrid
    /\ InitApp
    /\ inRoute \in RouteInputs
    /\ inZones \in ZoneInputs
    /\ outReport = <<>>

\* router.analyzeCrowdIntersections(inRoute, inZones)
Analyze ==
    /\ outReport = <<>>
    /\ outReport' = <<analyzeCrowdIntersections(inRoute, inZones)>>
    /\ UNCHANGED <<gridVars, staticLoaded, uiVars, calcVars, inRoute, inZones>>

AnalyzeNext == Analyze

SpecAnalyze == AnalyzeInit /\ [][AnalyzeNext]_vars

\* the component: the user's events, the timers and the provider's answers
Init == InitGrid /\ InitApp /\ InitFn

WithinEvents == ncalls + nclicks + ncalcs + nselects < MaxEvents

Next ==
    \/ StaticLoad
    \/ WithinEvents /\ AddTestCrowds
    \/ \E p \in RightClickInputs : WithinEvents /\ HandleAddPerson(p)
    \/ ClearAllClick
    \/ \E p \in ClickInputs : WithinEvents /\ HandleSelect(p)
    \/ WithinEvents /\ CalculateClick
    \/ DelayDone
    \/ \E resp \in Responses : DirectResponse(resp)
    \/ \E resp \in Responses : AvoidanceResponse(resp)
    \/ \E resp \in Responses : AlternativeResponse(resp)
    \/ \E index \in 0..2 : WithinEvents /\ SelectOption(index)

Spec == Init /\ [][Next]_vars

\* one answer of the provider of each kind: a rejected fetch, an error code,
\* one route, two routes
LiveResponses ==
    { NetworkError,
      JsonBody("NoRoute", <<>>),
      JsonBody("Ok", <<ProviderThrough>>),
      JsonBody("Ok", <<ProviderThrough, ProviderAround>>) }

\* what a running calculateRoute waits for: its timer, or the answer to the
\* request it has sent (one of the four is enabled while it runs)
CalculationStep ==
    \/ DelayDone
    \/ \E resp \in LiveResponses : DirectResponse(resp)
    \/ \E resp \in LiveResponses : AvoidanceResponse(resp)
    \/ \E resp \in LiveResponses : AlternativeResponse(resp)

\* The component when the timer of calculateRoute fires and every request to
\* the provider is answered or fails.
Fairness == WF_vars(CalculationStep)

\* the events of Next with budgets of their own and, of the inputs that the
\* handlers reject, none
WithinLiveEvents == ncalls + nclicks + ncalcs < MaxLiveEvents

WithinLiveSelects == nselects < MaxLiveSelects

LiveNext ==
    \/ StaticLoad
    \/ WithinLiveEvents /\ AddTestCrowds
    \/ WithinLiveEvents /\ HandleAddPerson(PointA)
    \/ ClearAllClick
    \/ \E p \in {ClickPointS, ClickPointT} : WithinLiveEvents /\ HandleSelect(p)
    \/ WithinLiveEvents /\ CalculateClick
    \/ DelayDone
    \/ \E resp \in LiveResponses : DirectResponse(resp)
    \/ \E resp \in LiveResponses : AvoidanceResponse(resp)
    \/ \E resp \in LiveResponses : AlternativeResponse(resp)
    \/ \E index \in 0..2 : WithinLiveSelects /\ SelectOption(index)

SpecLive == Init /\ [][LiveNext]_vars /\ Fairness

---------------------------------------------------------------------------
(* Claims about the grid, checked under SpecGrid *)

\* two coordinates lie in one cell of the 0.0005 degree grid
SameCell(p, q) ==
    /\ p[1] \div 5 = q[1] \div 5
    /\ p[2] \div 5 = q[2] \div 5

CallStep == ncalls' = ncalls + 1

\* C3: after any sequence of addPerson calls, getPopulation at a valid
\* coordinate is the sum of the counts added at the coordinates of the same
\* grid cell (0 if there was none), and addPerson returns the cell's new total.
C3_PopulationIsSumOfCounts ==
    /\ \A p \in ValidPoints :
          getPopulation(populations, p[1], p[2])
              = SumOver(added, {q \in AllPoints : SameCell(p, q)})
    /\ (lastCall.op = "addPerson" /\ lastCall.p \in ValidPoints)
          => lastCall.ret = getPopulation(populations, lastCall.p[1], lastCall.p[2])

\* two different coordinates of one cell were added to, and a call returned
C3_Witness ==
    /\ added[PointA] > 0
    /\ added[PointA2] > 0
    /\ lastCall.op = "addPerson"
    /\ lastCall.p = PointA2
    /\ lastCall.ret = added[PointA] + added[PointA2]

\* C4: crowdZones holds exactly one zone for each cell of population >= 3 and
\* none for any other cell; a zone's population is its cell's population and
\* its weight the step-function weight of that population.
C4_ZonesMatchCells ==
    /\ \A i \in 1..Len(crowdZones) :
          \E j \in 1..Len(populations) :
              /\ populations[j].key = crowdZones[i].center
              /\ populations[j].pop >= 3
              /\ crowdZones[i].population = populations[j].pop
              /\ crowdZones[i].weight =
                    (IF populations[j].pop < 6 THEN 5
                     ELSE IF populations[j].pop < 10 THEN 10 ELSE 20)
    /\ \A j \in 1..Len(populations) :
          populations[j].pop >= 3 =>
              Cardinality({i \in 1..Len(crowdZones) :
                              crowdZones[i].center = populations[j].key}) = 1

\* C5 as stated: addPerson with an invalid coordinate changes nothing.
C5_AddPersonRejectsInvalid ==
    [][(CallStep /\ lastCall'.op = "addPerson" /\ lastCall'.p \in InvalidPoints)
          => /\ lastCall'.rejected
             /\ populations' = populations
             /\ crowdZones' = crowdZones]_vars

\* C5 amended: the right-click handler handleAddPerson, called with a latitude
\* outside [-90, 90], a longitude outside [-180, 180] or a NaN coordinate,
\* returns without calling addPerson and leaves every cell population, the
\* zone set and the displayed areas unchanged.
C5_HandlerRejectsInvalid ==
    [][(CallStep /\ lastCall'.op = "handleAddPerson" /\ lastCall'.p \in InvalidPoints)
          => /\ lastCall'.rejected
             /\ populations' = populations
             /\ crowdZones' = crowdZones
             /\ populatedAreas' = populatedAreas]_vars

\* the handler rejected an invalid coordinate on a grid that holds a crowd
C5_Witness ==
    /\ lastCall.op = "handleAddPerson"
    /\ lastCall.p \in InvalidPoints
    /\ lastCall.rejected
    /\ crowdZones # <<>>

\* C6: addPerson with a zero or negative count is rejected and changes no
\* cell population and no zone; no cell population is ever negative.
C6_NonPositiveCountRejected ==
    [][(CallStep /\ lastCall'.op = "addPerson" /\ lastCall'.count <= 0)
          => /\ lastCall'.rejected
             /\ \A p \in GridPoints :
                   getPopulation(populations', p[1], p[2])
                       = getPopulation(populations, p[1], p[2])
             /\ crowdZones' = crowdZones
             /\ \A i \in 1..Len(populations') : populations'[i].pop >= 0]_vars

\* C7: getPopulatedAreas returns exactly the cells of population > 0.
C7_PopulatedAreasExact ==
    LET areas == getPopulatedAreas(populations)
    IN /\ \A i \in 1..Len(areas) :
             /\ areas[i].population > 0
             /\ \E j \in 1..Len(populations) :
                   /\ populations[j].key = <<areas[i].lat, areas[i].lng>>
                   /\ populations[j].pop = areas[i].population
       /\ \A j \in 1..Len(populations) :
             populations[j].pop > 0 =>
                 Cardinality({i \in 1..Len(areas) :
                                 <<areas[i].lat, areas[i].lng>> = populations[j].key}) = 1
       /\ Len(areas) = Cardinality({j \in 1..Len(populations) : populations[j].pop > 0})

\* a cell that was added to with count 0 is held with population 0 beside a
\* populated one, and only the populated one is returned
C7_Witness ==
    /\ \E j \in 1..Len(populations) : populations[j].pop = 0
    /\ Len(getPopulatedAreas(populations)) = 1
    /\ Len(populations) = 2

\* C8: getRoutingWeight is the step function 0 -> 1, 1..2 -> 2, 3..5 -> 5,
\* 6..9 -> 10, >= 10 -> 20 of the cell's population, non-decreasing in the
\* population, and 1 for a coordinate whose cell was never touched.
C8_RoutingWeightSteps ==
    /\ \A p \in GridPoints :
          LET pop == getPopulation(populations, p[1], p[2])
              w == getRoutingWeight(populations, p[1], p[2])
          IN /\ pop = 0 => w = 1
             /\ pop \in 1..2 => w = 2
             /\ pop \in 3..5 => w = 5
             /\ pop \in 6..9 => w = 10
             /\ pop >= 10 => w = 20
             /\ ~MapHas(populations, getGridKey(p[1], p[2])) => w = 1
    /\ \A p, q \in GridPoints :
          LET popP == getPopulation(populations, p[1], p[2])
              popQ == getPopulation(populations, q[1], q[2])
          IN (0 <= popP /\ popP <= popQ)
                => getRoutingWeight(populations, p[1], p[2])
                       <= getRoutingWeight(populations, q[1], q[2])

\* three cells at three different steps, one of them at the breakpoint 3
C8_Witness ==
    /\ getPopulation(populations, PointA[1], PointA[2]) = 3
    /\ getRoutingWeight(populations, PointA[1], PointA[2]) = 5
    /\ getRoutingWeight(populations, PointB[1], PointB[2]) = 1
    /\ ~MapHas(populations, getGridKey(PointB[1], PointB[2]))

\* C15: clearAll resets the grid to the empty state from any state: after it
\* getPopulation is 0 for every coordinate, getPopulatedAreas is empty and
\* crowdZones is empty; a second clearAll leaves what the first one left.
C15_ClearAllResets ==
    [][lastCall'.op = "clearAll" =>
          /\ \A p \in AllPoints : getPopulation(populations', p[1], p[2]) = 0
          /\ getPopulatedAreas(populations') = <<>>
          /\ crowdZones' = <<>>
          /\ lastCall.op = "clearAll" => UNCHANGED <<populations, crowdZones>>]_vars

\* clearAll has emptied a grid of two cells of which one was a zone, after
\* three addPerson calls
C15_Witness ==
    /\ lastCall.op = "clearAll"
    /\ lastCall.count = 2
    /\ ncalls = 3
    /\ populations = <<>>
    /\ crowdZones = <<>>

---------------------------------------------------------------------------
(* Claims about analyzeCrowdIntersections, checked under SpecAnalyze *)

\* the number of points of route within zone.radius of zone.center
PointsWithin(route, zone) ==
    Cardinality({j \in 1..Len(route) :
        (route[j][1] - zone.center[1]) * (route[j][1] - zone.center[1])
          + (route[j][2] - zone.center[2]) * (route[j][2] - zone.center[2])
            <= zone.radius * zone.radius})

\* C9: for a non-empty route, totalIntersection is the sum over the zones of
\* (points of the route within the zone's radius / route length) * weight.
C9_TotalIsWeightedSum ==
    (outReport # <<>> /\ inRoute # <<>>) =>
        LET weighted == [i \in 1..Len(inZones) |->
                            PointsWithin(inRoute, inZones[i]) * inZones[i].weight]
            total == outReport[1].totalIntersection
        IN /\ total.d > 0
           /\ total.n * Len(inRoute) = SumSeq(weighted) * total.d

\* the scenario: one zone of weight 20 holding 5 points of a 10-point route
C9_Witness ==
    /\ inRoute = ScenarioRoute
    /\ inZones = <<ZoneA20>>
    /\ PointsWithin(inRoute, ZoneA20) = 5
    /\ outReport # <<>>
    /\ outReport[1].totalIntersection = RatOf(10)

\* C10: with an empty zone list the result is totalIntersection 0,
\* averageIntersection 0 and no worstZone, for every route.
C10_EmptyZoneList ==
    (outReport # <<>> /\ inZones = <<>>) =>
        /\ outReport[1].totalIntersection = RatOf(0)
        /\ outReport[1].averageIntersection = RatOf(0)
        /\ outReport[1].worstZone = <<>>

\* the call was made with no zones on a route of two points
C10_Witness ==
    /\ inZones = <<>>
    /\ Len(inRoute) = 2
    /\ outReport # <<>>
    /\ outReport[1].averageIntersection = RatOf(0)

---------------------------------------------------------------------------
(* Claims about the route calculation, checked under Spec *)

\* the step in which the running calculateRoute ends
CalculationEnds == pc # "idle" /\ pc' = "idle"

\* C1: of a non-empty list returned by getMultipleRoutes, calculateRoute
\* chooses a route whose totalIntersection is at most that of every other
\* candidate, and the earliest of those that share the minimum.
C1_ChoosesFirstMinimum ==
    [][(CalculationEnds /\ returned'[1] # <<>>) =>
          LET routes == returned'[1]
              chosen == selectedRouteIndex' + 1
              Total(i) == routes[i].crowdIntersections.totalIntersection
          IN /\ chosen \in 1..Len(routes)
             /\ routeOptions' = routes
             /\ currentRoute' = routes[chosen].route
             /\ \A j \in 1..Len(routes) :
                   Total(chosen).n * Total(j).d <= Total(j).n * Total(chosen).d
             /\ \A j \in 1..(chosen - 1) :
                   Total(chosen).n * Total(j).d < Total(j).n * Total(chosen).d]_vars

\* three candidates, the second and third sharing the minimum: the second
\* was chosen
C1_Witness ==
    /\ pc = "idle"
    /\ returned # <<>>
    /\ Len(returned[1]) = 3
    /\ nselects = 0
    /\ routeOptions = returned[1]
    /\ selectedRouteIndex = 1
    /\ returned[1][2].crowdIntersections.totalIntersection
          = returned[1][3].crowdIntersections.totalIntersection
    /\ returned[1][1].crowdIntersections.totalIntersection.n > 0
    /\ returned[1][2].crowdIntersections.totalIntersection.n = 0

\* the branch of a candidate type succeeded
BranchOk(type) == branch[type].status = "ok"

\* C2: whatever the three requests come to (network error, a code other than
\* Ok, missing route data), getMultipleRoutes returns one candidate for each
\* branch that succeeded, in the order direct, avoidance, alternative; the
\* direct and alternative requests are always made and the avoidance request
\* whenever there are zones.
C2_BranchIsolation ==
    returned # <<>> =>
        LET routes == returned[1]
            expected == SelectSeq(<<"direct", "avoidance", "alternative">>, BranchOk)
        IN /\ branch.direct.status # "none"
           /\ branch.alternative.status # "none"
           /\ (branch.avoidance.status = "none") <=> (cZones = <<>>)
           /\ Len(routes) = Len(expected)
           /\ \A i \in 1..Len(expected) :
                 /\ routes[i].type = expected[i]
                 /\ routes[i].route = branch[expected[i]].route

\* the avoidance request failed between two that succeeded
C2_Witness ==
    /\ returned # <<>>
    /\ branch.direct.status = "ok"
    /\ branch.avoidance.status = "failed"
    /\ branch.alternative.status = "ok"
    /\ Len(returned[1]) = 2
    /\ returned[1][1].type = "direct"
    /\ returned[1][2].type = "alternative"


---------------------------------------------------------------------------
(* Claims about the avoidance branch, under Spec *)

\* the getMultipleRoutes that runs, or ran last, was called with start equal
\* to end and a zone list that is not empty
DegenerateCall == cStart # Null /\ cStart = cEnd /\ Len(cZones) > 0

\* C11: when start equals end and the zone list is not empty, the avoidance
\* branch is skipped: getMultipleRoutes sends no avoidance request and holds
\* no candidate of type avoidance.
C11_AvoidanceSkipped ==
    DegenerateCall =>
        /\ \A i \in 1..Len(requests) : requests[i].type # "avoidance"
        /\ \A i \in 1..Len(cRoutes) : cRoutes[i].type # "avoidance"

\* The part of C11 that the code keeps: with start equal to end the
\* avoidance request carries no waypoint, only start and end.
C11_NoWaypoints ==
    DegenerateCall =>
        \A i \in 1..Len(requests) :
            requests[i].type = "avoidance" => Len(requests[i].coordinates) = 2

---------------------------------------------------------------------------
(* Claims about the zone set of a calculation, under Spec *)

\* getMultipleRoutes is waiting for an answer of the provider
Fetching == pc \in {"direct", "avoidance", "alternative"}

\* C12 as stated: the zone set a calculation scores against is the one the
\* grid held when the calculation was requested, whatever addPerson and
\* clearAll do while it waits.
C12_ZonesOfTheRequest == Fetching => cZones = clickZones

\* C12 as the code has it: the zone set is the one the grid holds when the
\* one-second timer ends and getMultipleRoutes is called; from then on no
\* event changes it, every candidate is scored against it and no candidate,
\* once pushed, changes while the call waits.
C12_ZonesOfTheCall ==
    [][/\ (pc = "delay" /\ pc' # "delay") => cZones' = crowdZones
       /\ Fetching =>
            /\ cZones' = cZones
            /\ pc' # "idle" =>
                 /\ Len(cRoutes') >= Len(cRoutes)
                 /\ \A i \in 1..Len(cRoutes) : cRoutes'[i] = cRoutes[i]
       /\ \A i \in 1..Len(cRoutes') :
            cRoutes'[i].crowdIntersections
                = analyzeCrowdIntersections(cRoutes'[i].route, cZones')]_vars

\* the call waits for its last answer with two candidates of a positive
\* total, and Clear All has emptied the grid's zones under it
C12_Witness ==
    /\ pc = "alternative"
    /\ Len(cRoutes) = 2
    /\ Len(cZones) > 0
    /\ crowdZones = <<>>
    /\ \A i \in 1..Len(cRoutes) :
          RatLess(RatOf(0), cRoutes[i].crowdIntersections.totalIntersection)

---------------------------------------------------------------------------
(* Claims about the selected route, under Spec *)

\* info holds the type, the number of points and the crowd score of option
StatisticsOf(info, option) ==
    /\ info.routeType = option.type
    /\ info.totalPoints = Len(option.route)
    /\ info.crowdIntersection = option.crowdIntersections.totalIntersection

\* C13: the statistics are recomputed at every selection, automatic or by a
\* click on a route option: whenever a route is shown with statistics, these
\* are the statistics of an option whose route is the one in currentRoute.
C13_StatisticsOfCurrentRoute ==
    (routeInfo # <<>> /\ currentRoute # <<>>) =>
        \E i \in 1..Len(routeOptions) :
            /\ routeOptions[i].route = currentRoute
            /\ StatisticsOf(routeInfo[1], routeOptions[i])

\* The part of C13 that the code keeps: the automatic selection at the end
\* of a calculation installs the statistics of the route it installs.
C13_AfterCalculation ==
    [][(CalculationEnds /\ routeInfo' # <<>>) =>
          /\ currentRoute' = routeOptions'[selectedRouteIndex' + 1].route
          /\ StatisticsOf(routeInfo'[1], routeOptions'[selectedRouteIndex' + 1])]_vars

---------------------------------------------------------------------------
(* Claims about the selection of start and end, under Spec *)

\* a step that is a left click on a valid location
ValidClickStep == nclicks' = nclicks + 1 /\ lastClick' \notin InvalidPoints

\* C14: left clicks follow a cycle of three: with no start a valid click
\* sets the start; with a start and no end it sets the end; with both it
\* makes the clicked location the start, clears the end and clears the
\* route, the statistics and the route options.
C14_ThreeStepCycle ==
    [][ValidClickStep =>
          /\ start = Null => (start' = lastClick' /\ end' = Null)
          /\ (start # Null /\ end = Null) => (start' = start /\ end' = lastClick')
          /\ (start # Null /\ end # Null) =>
                /\ start' = lastClick'
                /\ end' = Null
                /\ currentRoute' = <<>>
                /\ routeInfo' = <<>>
                /\ routeOptions' = <<>>]_vars

\* What the code does: the first valid click sets the start, and every valid
\* click after it sets the end and leaves the start and the route alone.
C14_EveryLaterClickSetsEnd ==
    [][ValidClickStep =>
          /\ start = Null => (start' = lastClick' /\ end' = Null)
          /\ start # Null =>
                /\ start' = start
                /\ end' = lastClick'
                /\ UNCHANGED <<currentRoute, routeInfo, routeOptions>>]_vars

---------------------------------------------------------------------------
(* Claims about the displayed route, under Spec *)

\* C16: whenever routeOptions is not empty, selectedRouteIndex is an index
\* into it and currentRoute is the route of the option at that index.
C16_SelectionMatchesOptions ==
    Len(routeOptions) > 0 =>
        /\ selectedRouteIndex + 1 \in 1..Len(routeOptions)
        /\ currentRoute = routeOptions[selectedRouteIndex + 1].route

\* The part of C16 that the code keeps: selectedRouteIndex is always an
\* index into a routeOptions that is not empty.
C16_IndexInRange ==
    Len(routeOptions) > 0 => selectedRouteIndex + 1 \in 1..Len(routeOptions)

\* C17: whenever a route is displayed, start and end are set and the route
\* was computed for exactly these two points.
C17_RouteOfCurrentPoints ==
    currentRoute # <<>> =>
        /\ start # Null
        /\ end # Null
        /\ routeFor = <<start, end>>

\* A displayed route does have a start and an end, if not its own.
C17_PointsAreSet == currentRoute # <<>> => (start # Null /\ end # Null)

\* A route is displayed although Clear All was the grid's last operation and
\* emptied zones that the call of the calculation had read: the calculation
\* was under way when Clear All was pressed, and it installed its result.
C17_InstalledAfterClearAll ==
    /\ currentRoute # <<>>
    /\ lastCall.op = "clearAll"
    /\ lastCall.count > 0
    /\ Len(cZones) > 0
    /\ pc = "idle"

---------------------------------------------------------------------------
(* Claims about the end of a calculation, under SpecLive *)

=============================================================================
